---- MODULE Spec2Model ----
(***************************************************************************)
(* A byte-accurate model of the free-list allocator in src/src/alloc.c     *)
(* (tumalloc, tucalloc, turealloc, tufree and their helpers).              *)
(*                                                                         *)
(* Memory is an array of bytes.  A size_t or a pointer is a word of eight  *)
(* bytes, little-endian, and all arithmetic on it is done modulo 2^64 on   *)
(* the bytes themselves, so a header field that has been overwritten reads *)
(* back as whatever the bytes say.  The operating system maps memory in    *)
(* pages: an access beyond the break succeeds up to the end of the break's *)
(* page and faults after it.  The page size is not the program's to        *)
(* choose: a run starts with any of PageSizes.                             *)
(*                                                                         *)
(* do_alloc (lines 145-153) lacks the closing brace of its failure branch  *)
(* (line 148); the file is C only with that brace restored, and that is    *)
(* the reading modelled here.  The failure path is the same either way.    *)
(***************************************************************************)
EXTENDS Integers, Sequences, FiniteSets, TLC

(***************************************************************************)
(* Layout and constants                                                    *)
(***************************************************************************)
WordSize == 8
\* sizeof(int): the width of the sentinel the allocator writes and reads
IntSize == 4
\* sizeof(free_block): a size_t size followed by a pointer next
HeaderSize == 16
SizeOff == 0
NextOff == 8
MAGIC_NUMBER == 19088743

\* first address of the heap (the initial program break)
HeapBase == 16
\* the break the operating system refuses to go beyond
HeapLimit == 112
\* the larger of the page sizes a run may meet
PageSize == 64
\* with the smaller one every access beyond the break faults
PageSizes == {1, PageSize}
\* the end of the page that holds the break brk
PageEnd(brk, page) == HeapBase + ((brk - HeapBase + page - 1) \div page) * page
\* the end of all the memory a run can come to touch
MemTop == PageEnd(HeapLimit, PageSize)
\* the number of calls a run makes
MaxOps == 5
\* the number of calls a run of allocations and releases makes
MaxListOps == 8
\* the number of calls a run makes when the caller also overruns its blocks
MaxOverrunOps == 4
\* the number of calls a run of allocations, writes and reallocations makes
MaxGrowOps == 6
\* the number of calls a run makes when the caller releases pointers twice
MaxDoubleOps == 4
MaxBigOps == 7
MaxRaceOps == 4

(***************************************************************************)
(* 64-bit words as eight bytes, little-endian                              *)
(***************************************************************************)
Idx == 1..WordSize

\* the word with the bytes f[1] .. f[8]
Word(f) == <<f[1], f[2], f[3], f[4], f[5], f[6], f[7], f[8]>>

W(n) == <<n % 256, (n \div 256) % 256, (n \div 65536) % 256,
          (n \div 16777216) % 256, 0, 0, 0, 0>>

NULL == W(0)

\* the word is below 2^24, so it is an address the model can hold
Small(w) == \A i \in 4..WordSize : w[i] = 0

ToInt(w) == w[1] + 256 * w[2] + 65536 * w[3]

Add(a, b) ==
  LET c[i \in 0..WordSize] ==
        IF i = 0 THEN 0 ELSE (a[i] + b[i] + c[i - 1]) \div 256
  IN  Word([i \in Idx |-> (a[i] + b[i] + c[i - 1]) % 256])

Neg(a) == Add(Word([i \in Idx |-> 255 - a[i]]), W(1))

Sub(a, b) == Add(a, Neg(b))

\* unsigned a < b
Lt(a, b) ==
  LET d == {i \in Idx : a[i] # b[i]}
  IN  d # {} /\ (LET m == CHOOSE x \in d : \A y \in d : y <= x IN a[m] < b[m])

\* a * b modulo 2^64
Mul(a, b) ==
  LET col[k \in Idx] ==
        LET part[i \in 0..k] ==
              IF i = 0 THEN 0 ELSE part[i - 1] + a[i] * b[k - i + 1]
        IN  part[k]
      c[k \in 0..WordSize] ==
        IF k = 0 THEN 0 ELSE (col[k] + c[k - 1]) \div 256
  IN  Word([k \in Idx |-> (col[k] + c[k - 1]) % 256])

\* the conversion of a size_t to int and back to size_t: the low four
\* bytes, sign-extended
SExt32(w) ==
  Word([i \in Idx |-> IF i <= IntSize THEN w[i]
                      ELSE IF w[IntSize] >= 128 THEN 255 ELSE 0])

\* a word is negative as a signed 64-bit integer
Negative(w) == w[WordSize] >= 128

(***************************************************************************)
(* Memory and the machine a call runs on                                   *)
(***************************************************************************)
Addrs == 0..(MemTop - 1)

\* n bytes at address a, as the low bytes of a word
RdBytes(mem, a, n) ==
  Word([i \in Idx |-> IF i <= n /\ (a + i - 1) \in Addrs THEN mem[a + i - 1] ELSE 0])

WrBytes(mem, a, n, w) ==
  [x \in Addrs |-> IF x >= a /\ x < a + n THEN w[x - a + 1] ELSE mem[x]]

\* an access of n bytes at aw.  0: it succeeds, being inside the heap or the
\* rest of its last page; 2: it faults, there being no such address; 1: it
\* falls below the heap, into memory that is not the allocator's
Class(M, aw, n) ==
  IF ~Small(aw) \/ ToInt(aw) + n > PageEnd(M.brk, M.page) THEN 2
  ELSE IF ToInt(aw) >= HeapBase THEN 0
  ELSE 1

Worse(f, g) == IF f >= g THEN f ELSE g

\* a machine: memory, the list head, the break, the page size, the order in
\* which the library's memcpy copies (down), and what has gone wrong (fault:
\* the worst Class of its accesses; hang: a loop that never ends; abort:
\* abort() was called)
Touch(M, aw, n) == [M EXCEPT !.fault = Worse(@, Class(M, aw, n))]

Load(M, aw, n) == IF Small(aw) THEN RdBytes(M.mem, ToInt(aw), n) ELSE NULL

Store(M, aw, n, w) ==
  IF Class(M, aw, n) = 2 THEN Touch(M, aw, n)
  ELSE [Touch(M, aw, n) EXCEPT !.mem = WrBytes(@, ToInt(aw), n, w)]

GetSize(M, b) == Load(M, Add(b, W(SizeOff)), WordSize)
GetNext(M, b) == Load(M, Add(b, W(NextOff)), WordSize)
SetSize(M, b, w) == Store(M, Add(b, W(SizeOff)), WordSize, w)
SetNext(M, b, w) == Store(M, Add(b, W(NextOff)), WordSize, w)
TouchHeader(M, b) == Touch(M, b, HeaderSize)

Stopped(M) == M.fault = 2 \/ M.hang \/ M.abort

(***************************************************************************)
(* The allocator's functions.  Each takes a machine and returns the        *)
(* machine it leaves and the value it returns.  Bind(e, LAMBDA x : b) is   *)
(* "let x be e in b": one statement of the C function per line.            *)
(***************************************************************************)
Bind(x, F(_)) == F(x)

Ret(M, r) == [m |-> M, ret |-> r]

\* split (lines 21-40); its size parameter is an int
split(M, block, size) ==
  Bind(SExt32(size), LAMBDA sz :
  Bind(TouchHeader(M, block), LAMBDA M0 :
  Bind(GetSize(M0, block), LAMBDA bsize :
    IF Lt(bsize, Add(sz, W(HeaderSize))) THEN Ret(M0, NULL)
    ELSE
  Bind(Add(Add(block, sz), W(HeaderSize)), LAMBDA new_block :
  Bind(SetSize(M0, new_block, Sub(Sub(bsize, sz), W(HeaderSize))), LAMBDA M1 :
  Bind(SetNext(M1, new_block, GetNext(M1, block)), LAMBDA M2 :
  Bind(SetSize(M2, block, sz), LAMBDA M3 :
  Bind(SetNext(M3, block, new_block), LAMBDA M4 :
    Ret(M4, block)))))))))

\* find_prev (lines 48-57); seen holds the blocks the loop has visited: the
\* loop writes nothing, so a second visit means it never ends
RECURSIVE find_prev_loop(_, _, _, _)
find_prev_loop(M, block, curr, seen) ==
  IF curr = NULL THEN Ret(M, NULL)
  ELSE IF curr \in seen THEN Ret([M EXCEPT !.hang = TRUE], NULL)
  ELSE
  Bind(TouchHeader(M, curr), LAMBDA M1 :
  Bind(Add(Add(curr, GetSize(M1, curr)), W(HeaderSize)), LAMBDA next :
    IF M1.fault = 2 THEN Ret(M1, NULL)
    ELSE IF next = block THEN Ret(M1, curr)
    ELSE find_prev_loop(M1, block, GetNext(M1, curr), seen \cup {curr})))

find_prev(M, block) == find_prev_loop(M, block, M.head, {})

\* find_next (lines 65-75)
RECURSIVE find_next_loop(_, _, _, _)
find_next_loop(M, block_end, curr, seen) ==
  IF curr = NULL THEN Ret(M, NULL)
  ELSE IF curr \in seen THEN Ret([M EXCEPT !.hang = TRUE], NULL)
  ELSE IF curr = block_end THEN Ret(M, curr)
  ELSE
  Bind(Touch(M, Add(curr, W(NextOff)), WordSize), LAMBDA M1 :
    IF M1.fault = 2 THEN Ret(M1, NULL)
    ELSE find_next_loop(M1, block_end, GetNext(M1, curr), seen \cup {curr}))

find_next(M, block) ==
  Bind(Touch(M, Add(block, W(SizeOff)), WordSize), LAMBDA M0 :
  Bind(Add(Add(block, GetSize(M0, block)), W(HeaderSize)), LAMBDA block_end :
    find_next_loop(M0, block_end, M0.head, {})))

\* the first half of coalesce (lines 111-123): merge into the previous
\* neighbour; returns the block the second half works on
coalesce_prev(M, block, prev) ==
  IF prev = NULL THEN Ret(M, block)
  ELSE
  Bind(TouchHeader(M, prev), LAMBDA M0 :
  Bind(Add(Add(prev, GetSize(M0, prev)), W(HeaderSize)), LAMBDA end_of_prev :
    IF end_of_prev # block THEN Ret(M0, block)
    ELSE
  Bind(SetSize(TouchHeader(M0, block), prev,
               Add(Add(GetSize(M0, prev), GetSize(M0, block)), W(HeaderSize))),
       LAMBDA M1 :
  Bind(IF GetNext(M1, prev) = block
       THEN SetNext(M1, prev, GetNext(M1, block)) ELSE M1, LAMBDA M2 :
    Ret(M2, prev)))))

\* the second half of coalesce (lines 125-134): absorb the next neighbour
coalesce_next(M, block, next) ==
  IF next = NULL THEN Ret(M, block)
  ELSE
  Bind(TouchHeader(M, block), LAMBDA M0 :
  Bind(Add(Add(block, GetSize(M0, block)), W(HeaderSize)), LAMBDA end_of_block :
    IF end_of_block # next THEN Ret(M0, block)
    ELSE
  Bind(SetSize(TouchHeader(M0, next), block,
               Add(Add(GetSize(M0, block), GetSize(M0, next)), W(HeaderSize))),
       LAMBDA M1 :
  Bind(SetNext(M1, block, GetNext(M1, next)), LAMBDA M2 :
    Ret(M2, block)))))

\* coalesce (lines 103-137)
coalesce(M, block) ==
  IF block = NULL THEN Ret(M, NULL)
  ELSE
  Bind(find_prev(M, block), LAMBDA p :
    IF Stopped(p.m) THEN Ret(p.m, NULL)
    ELSE
  Bind(find_next(p.m, block), LAMBDA n :
    IF Stopped(n.m) THEN Ret(n.m, NULL)
    ELSE
  Bind(coalesce_prev(n.m, block, p.ret), LAMBDA a :
    coalesce_next(a.m, a.ret, n.ret))))

\* the value sbrk returns when it fails: (void *)-1
SbrkFailed == Neg(W(1))

\* sbrk: the increment is an intptr_t; the break moves unless that would
\* take it beyond HeapLimit or below HeapBase
sbrk(M, inc) ==
  IF Negative(inc)
  THEN Bind(Neg(inc), LAMBDA dec :
         IF Small(dec) /\ M.brk - ToInt(dec) >= HeapBase
         THEN Ret([M EXCEPT !.brk = @ - ToInt(dec)], W(M.brk))
         ELSE Ret(M, SbrkFailed))
  ELSE IF Small(inc) /\ M.brk + ToInt(inc) <= HeapLimit
       THEN Ret([M EXCEPT !.brk = @ + ToInt(inc)], W(M.brk))
       ELSE Ret(M, SbrkFailed)

\* do_alloc (lines 145-153)
do_alloc(M, size) ==
  Bind(sbrk(M, Add(Add(size, W(HeaderSize)), W(IntSize))), LAMBDA s :
    IF s.ret = SbrkFailed THEN Ret(s.m, NULL)
    ELSE
  Bind(SetSize(s.m, s.ret, size), LAMBDA M1 :
  Bind(SetNext(M1, s.ret, NULL), LAMBDA M2 :
    Ret(M2, s.ret))))

\* the sentinel slot of the block whose header is at b, for a payload of size
SentinelAt(b, size) == Add(Add(b, W(HeaderSize)), size)

\* *(int *)((char *)b + sizeof(free_block) + size) = MAGIC_NUMBER
WriteSentinel(M, b, size) ==
  Store(M, SentinelAt(b, size), IntSize, W(MAGIC_NUMBER))

\* tumalloc when the list offers nothing (lines 163-174 and 211-220)
tumalloc_fresh(M, size) ==
  Bind(do_alloc(M, size), LAMBDA d :
    IF d.ret = NULL THEN Ret(d.m, NULL)
    ELSE Ret(WriteSentinel(d.m, d.ret, size), Add(d.ret, W(HeaderSize))))

\* tumalloc once a candidate is large enough to split (lines 187-203)
tumalloc_take(M, size, curr, prev) ==
  Bind(split(M, curr, size), LAMBDA s :
    IF s.ret = NULL THEN Ret(s.m, NULL)
    ELSE
  Bind(IF prev # NULL
       THEN SetNext(s.m, prev, GetNext(s.m, curr))
       ELSE [s.m EXCEPT !.head = GetNext(s.m, curr)], LAMBDA M1 :
  Bind(SetSize(M1, s.ret, size), LAMBDA M2 :
  Bind(WriteSentinel(M2, s.ret, size), LAMBDA M3 :
    Ret(M3, Add(s.ret, W(HeaderSize)))))))

\* lines 180-181 with <= for <: a candidate with exactly one header to spare
\* is skipped as well
FitsStrictly(csize, size) ==
  ~Lt(csize, size) /\ Lt(Add(size, W(HeaderSize)), csize)

\* the test of lines 180-181: the candidate is large enough to be split
Fits(csize, size) == ~Lt(csize, size) /\ ~Lt(csize, Add(size, W(HeaderSize)))

\* the scan of tumalloc (lines 176-208)
RECURSIVE tumalloc_loop(_, _, _, _, _)
tumalloc_loop(M, size, curr, prev, seen) ==
  IF curr = NULL THEN tumalloc_fresh(M, size)
  ELSE IF curr \in seen THEN Ret([M EXCEPT !.hang = TRUE], NULL)
  ELSE
  Bind(TouchHeader(M, curr), LAMBDA M1 :
    IF M1.fault = 2 THEN Ret(M1, NULL)
    ELSE IF Fits(GetSize(M1, curr), size)
    THEN tumalloc_take(M1, size, curr, prev)
    ELSE tumalloc_loop(M1, size, GetNext(M1, curr), curr, seen \cup {curr}))

\* tumalloc (lines 162-221)
tumalloc(M, size) ==
  IF M.head = NULL THEN tumalloc_fresh(M, size)
  ELSE tumalloc_loop(M, size, M.head, NULL, {})

\* memset(ptr, 0, n), byte by byte; n is below 2^24 wherever the model calls it
RECURSIVE memset0(_, _, _)
memset0(M, ptr, n) ==
  IF n = 0 \/ M.fault = 2 THEN M
  ELSE memset0(Store(M, ptr, 1, NULL), Add(ptr, W(1)), n - 1)

\* memcpy(dst, src, n) copying from the lowest address up ...
RECURSIVE memcpy_up(_, _, _, _)
memcpy_up(M, dst, src, n) ==
  IF n = 0 \/ M.fault = 2 THEN M
  ELSE memcpy_up(Store(Touch(M, src, 1), dst, 1, Load(M, src, 1)),
                 Add(dst, W(1)), Add(src, W(1)), n - 1)

\* ... and from the highest address down
RECURSIVE memcpy_down(_, _, _, _)
memcpy_down(M, dst, src, n) ==
  IF n = 0 \/ M.fault = 2 THEN M
  ELSE memcpy_down(Store(Touch(M, Add(src, W(n - 1)), 1), Add(dst, W(n - 1)), 1,
                         Load(M, Add(src, W(n - 1)), 1)),
                   dst, src, n - 1)

\* memcpy (line 259).  The order in which it copies is the library's: where
\* source and destination overlap the result depends on it, and the machine
\* says which order this run's library uses
memcpy(M, dst, src, n) ==
  IF M.down THEN memcpy_down(M, dst, src, n) ELSE memcpy_up(M, dst, src, n)

\* a length the model can loop over; a longer one runs off the end of memory
Span(w) == IF Small(w) /\ ToInt(w) <= MemTop THEN ToInt(w) ELSE MemTop + 1

\* tucalloc clearing one element instead of all of them
tucalloc_one(M, num, size) ==
  Bind(Mul(num, size), LAMBDA total_size :
  Bind(tumalloc(M, total_size), LAMBDA a :
    IF a.ret # NULL /\ ~Stopped(a.m)
    THEN Ret(memset0(a.m, a.ret, Span(size)), a.ret)
    ELSE a))

\* tucalloc (lines 231-238)
tucalloc(M, num, size) ==
  Bind(Mul(num, size), LAMBDA total_size :
  Bind(tumalloc(M, total_size), LAMBDA a :
    IF a.ret # NULL /\ ~Stopped(a.m)
    THEN Ret(memset0(a.m, a.ret, Span(total_size)), a.ret)
    ELSE a))

\* line 278 comparing the sentinel's first byte only
SentinelFirstByte(M, header) ==
  Load(M, SentinelAt(header, GetSize(M, header)), 1) = W(MAGIC_NUMBER % 256)

\* the sentinel test of line 278
SentinelIntact(M, header) ==
  Load(M, SentinelAt(header, GetSize(M, header)), IntSize) = W(MAGIC_NUMBER)

\* tufree (lines 270-289)
tufree(M, ptr) ==
  IF ptr = NULL THEN M
  ELSE
  Bind(Sub(ptr, W(HeaderSize)), LAMBDA header :
  Bind(TouchHeader(M, header), LAMBDA M0 :
  Bind(Touch(M0, SentinelAt(header, GetSize(M0, header)), IntSize), LAMBDA M1 :
    IF M1.fault = 2 THEN M1
    ELSE IF SentinelIntact(M1, header)
    THEN
  Bind(SetSize(M1, header, GetSize(M1, header)), LAMBDA M2 :
  Bind(SetNext(M2, header, M2.head), LAMBDA M3 :
  Bind([M3 EXCEPT !.head = header], LAMBDA M4 :
    coalesce(M4, header).m)))
    ELSE [M1 EXCEPT !.abort = TRUE])))

\* line 252 with > for >=
CoversStrictly(cur, new_size) == Lt(new_size, cur)

\* the test of line 252: the block already holds new_size bytes
Covers(cur, new_size) == ~Lt(cur, new_size)

\* turealloc releasing the old block when tumalloc has failed
turealloc_release(M, ptr, new_size) ==
  IF ptr = NULL THEN tumalloc(M, new_size)
  ELSE
  Bind(Sub(ptr, W(HeaderSize)), LAMBDA header :
  Bind(TouchHeader(M, header), LAMBDA M0 :
    IF Covers(GetSize(M0, header), new_size) THEN Ret(M0, ptr)
    ELSE
  Bind(tumalloc(M0, new_size), LAMBDA a :
    IF Stopped(a.m) THEN a
    ELSE IF a.ret = NULL THEN Ret(tufree(a.m, ptr), NULL)
    ELSE
  Bind(memcpy(a.m, a.ret, ptr, Span(GetSize(a.m, header))), LAMBDA c :
    IF Stopped(c) THEN Ret(c, NULL)
    ELSE Ret(tufree(c, ptr), a.ret)))))

\* turealloc (lines 247-262)
turealloc(M, ptr, new_size) ==
  IF ptr = NULL THEN tumalloc(M, new_size)
  ELSE
  Bind(Sub(ptr, W(HeaderSize)), LAMBDA header :
  Bind(TouchHeader(M, header), LAMBDA M0 :
    IF Covers(GetSize(M0, header), new_size) THEN Ret(M0, ptr)
    ELSE
  Bind(tumalloc(M0, new_size), LAMBDA a :
    IF a.ret = NULL \/ Stopped(a.m) THEN a
    ELSE
  Bind(memcpy(a.m, a.ret, ptr, Span(GetSize(a.m, header))), LAMBDA c :
    IF Stopped(c) THEN Ret(c, NULL)
    ELSE Ret(tufree(c, ptr), a.ret)))))

(***************************************************************************)
(* The program: a caller that makes up to MaxOps calls on the allocator    *)
(* and writes into the blocks it holds.                                    *)
(***************************************************************************)
\* the payload sizes the caller asks for
Sizes == {8, 24, 44}

\* 2^63 + 4: with an element size of 2 the product wraps to 8
HugeCount == <<4, 0, 0, 0, 0, 0, 0, 128>>

\* the (count, element size) pairs the caller passes to tucalloc
CallocArgs == {<<W(3), W(8)>>, <<W(2), W(4)>>, <<HugeCount, W(2)>>}

\* the byte the caller writes at offset i of a block it fills
FillByte(i) == 161 + i

VARIABLES
  mem,     \* the bytes of memory
  HEAD,    \* the static HEAD of line 12, a pointer
  brk,     \* the program break
  held,    \* the blocks the caller holds: payload address and size asked for
  status,  \* "running", or how the process ended
  page,    \* the page size of this run
  left,    \* the calls the caller has yet to make
  last,    \* the last call: its name, arguments and result
  caller,  \* two threads calling the allocator: where each is in its call
  raced    \* a call has started while another caller was inside a call

vars == <<mem, HEAD, brk, held, status, page, left, last, caller, raced>>

Mach == [mem |-> mem, head |-> HEAD, brk |-> brk, page |-> page,
         fault |-> 0, hang |-> FALSE, abort |-> FALSE, down |-> FALSE]

Call(name, p, n, c, r) == [op |-> name, ptr |-> p, size |-> n, num |-> c, ret |-> r]

Callers == 1..2

\* a caller outside any call, owning the blocks own
Idle(own) == [pc |-> "idle", op |-> "none", size |-> NULL, ptr |-> NULL,
              block |-> NULL, prev |-> NULL, h |-> NULL, ret |-> 0, own |-> own]

\* the state a run of n calls starts in: HEAD is NULL (line 12), nothing has
\* been obtained from sbrk
Start(n) ==
  /\ mem = [a \in Addrs |-> 0]
  /\ HEAD = NULL
  /\ brk = HeapBase
  /\ held = {}
  /\ status = "running"
  /\ page \in PageSizes
  /\ left = n
  /\ last = Call("none", 0, NULL, NULL, 0)
  /\ caller = [t \in Callers |-> Idle({})]
  /\ raced = FALSE

Init == Start(MaxOps)

\* how a call that ran to machine M ends.  A call that touched an address
\* that does not exist faults; one that touched memory below the heap may
\* fault or go on; otherwise it hangs, aborts or returns, as M says.
End(M, h, l) ==
  /\ left' = left - 1
  /\ page' = page
  /\ UNCHANGED <<caller, raced>>
  /\ \/ /\ M.fault >= 1
        /\ status' = "segv"
        /\ last' = [l EXCEPT !.ret = 0]
        /\ UNCHANGED <<mem, HEAD, brk, held>>
     \/ /\ M.fault <= 1
        /\ M.hang
        /\ status' = "hang"
        /\ last' = [l EXCEPT !.ret = 0]
        /\ UNCHANGED <<mem, HEAD, brk, held>>
     \/ /\ M.fault <= 1
        /\ ~M.hang
        /\ status' = IF M.abort THEN "aborted" ELSE "running"
        /\ mem' = M.mem
        /\ HEAD' = M.head
        /\ brk' = M.brk
        /\ held' = IF M.abort THEN held ELSE h
        /\ last' = IF M.abort THEN [l EXCEPT !.ret = 0] ELSE l

Active == status = "running" /\ left > 0

Take(r, n) == IF r.ret = NULL THEN held
              ELSE held \cup {[ptr |-> ToInt(r.ret), size |-> n]}

Malloc(n) ==
  /\ Active
  /\ Bind(tumalloc(Mach, W(n)), LAMBDA r :
        End(r.m, Take(r, n), Call("malloc", 0, W(n), NULL, ToInt(r.ret))))

Calloc(c) ==
  /\ Active
  /\ Bind(tucalloc(Mach, c[1], c[2]), LAMBDA r :
        End(r.m, Take(r, ToInt(Mul(c[1], c[2]))),
            Call("calloc", 0, c[2], c[1], ToInt(r.ret))))

\* what the caller holds after turealloc(h.ptr, n) returned r
Retake(r, h, n) ==
  IF r.ret = NULL THEN held
  ELSE IF r.ret = W(h.ptr)
  THEN (held \ {h}) \cup {[ptr |-> h.ptr, size |-> IF n < h.size THEN h.size ELSE n]}
  ELSE (held \ {h}) \cup {[ptr |-> ToInt(r.ret), size |-> n]}

Realloc(h, n) ==
  /\ Active
  /\ \E d \in BOOLEAN :
       Bind(turealloc([Mach EXCEPT !.down = d], W(h.ptr), W(n)), LAMBDA r :
         End(r.m, Retake(r, h, n),
             Call("realloc", h.ptr, W(n), NULL, ToInt(r.ret))))

ReallocNull(n) ==
  /\ Active
  /\ Bind(turealloc(Mach, NULL, W(n)), LAMBDA r :
        End(r.m, Take(r, n), Call("realloc", 0, W(n), NULL, ToInt(r.ret))))

\* the call record of a release keeps the size the header held
Free(h) ==
  /\ Active
  /\ End(tufree(Mach, W(h.ptr)), held \ {h},
         Call("free", h.ptr, RdBytes(mem, h.ptr - HeaderSize + SizeOff, WordSize),
              NULL, 0))

FreeNull ==
  /\ Active
  /\ End(tufree(Mach, NULL), held, Call("free", 0, NULL, NULL, 0))

\* the caller writes every byte of the payload of a block it holds
RECURSIVE fill(_, _, _, _)
fill(M, ptr, i, n) ==
  IF i = n \/ M.fault = 2 THEN M
  ELSE fill(Store(M, Add(ptr, W(i)), 1, W(FillByte(i))), ptr, i + 1, n)

Fill(h) ==
  /\ Active
  /\ End(fill(Mach, W(h.ptr), 0, h.size), held, Call("fill", h.ptr, W(h.size), NULL, 0))

\* the caller writes past the end of a payload it holds, over the k-th byte
\* of the sentinel
Overrun(h, k) ==
  /\ Active
  /\ End(Store(Mach, Add(W(h.ptr), W(h.size + k)), 1, NULL), held,
         Call("overrun", h.ptr, W(h.size), NULL, 0))

\* the caller releases once more the pointer it has just released
Refree ==
  /\ Active
  /\ last.op \in {"free", "refree"}
  /\ last.ptr # 0
  /\ End(tufree(Mach, W(last.ptr)), held,
         Call("refree", last.ptr, RdBytes(mem, last.ptr - HeaderSize + SizeOff, WordSize),
              NULL, 0))

Next ==
  \/ \E n \in Sizes : Malloc(n)
  \/ \E c \in CallocArgs : Calloc(c)
  \/ \E h \in held : \E n \in Sizes : Realloc(h, n)
  \/ \E n \in Sizes : ReallocNull(n)
  \/ \E h \in held : Free(h)
  \/ FreeNull
  \/ \E h \in held : Fill(h)

Spec == Init /\ [][Next]_vars

\* a caller that only allocates and releases, and makes more calls
InitList == Start(MaxListOps)

NextList ==
  \/ \E n \in Sizes : Malloc(n)
  \/ \E h \in held : Free(h)

SpecList == InitList /\ [][NextList]_vars

\* a caller that also writes past its payloads
InitOverrun == Start(MaxOverrunOps)

NextOverrun == Next \/ \E h \in held : \E k \in 0..(IntSize - 1) : Overrun(h, k)

SpecOverrun == InitOverrun /\ [][NextOverrun]_vars

\* a caller that allocates, writes, releases and reallocates, and makes one
\* call more
InitGrow == Start(MaxGrowOps)

NextGrow ==
  \/ \E n \in Sizes : Malloc(n)
  \/ \E h \in held : Free(h)
  \/ \E h \in held : \E n \in Sizes : Realloc(h, n)
  \/ \E h \in held : Fill(h)

SpecGrow == InitGrow /\ [][NextGrow]_vars

\* a request of 2^31 bytes: as the int split takes it is negative (line 21)
BigSize == <<0, 0, 0, 128, 0, 0, 0, 0>>

\* tumalloc(2^31); the caller writes nothing into what it gets
MallocBig ==
  /\ Active
  /\ Bind(tumalloc(Mach, BigSize), LAMBDA r :
        End(r.m, Take(r, 0), Call("malloc", 0, BigSize, NULL, ToInt(r.ret))))

\* a caller that also asks for 2^31 bytes
InitBig == Start(MaxBigOps)

NextBig ==
  \/ \E n \in Sizes : Malloc(n)
  \/ MallocBig
  \/ \E h \in held : Free(h)

SpecBig == InitBig /\ [][NextBig]_vars

\* a caller that also releases a pointer a second time
InitDouble == Start(MaxDoubleOps)

NextDouble == Next \/ Refree

SpecDouble == InitDouble /\ [][NextDouble]_vars

(***************************************************************************)
(* Two callers without synchronization.  Each call of tumalloc and tufree  *)
(* runs as a sequence of steps, one for each read and each write of HEAD   *)
(* and of the links, and the steps of the two callers interleave freely.   *)
(* do_alloc with the sentinel write behind it, and coalesce, each run as   *)
(* one step.                                                               *)
(***************************************************************************)
RaceSizes == {8, 44}

\* the blocks the callers own
Owned(cs) == UNION {cs[t].own : t \in Callers}

\* caller t goes on as c after a step that ran to machine M
RaceEnd(M, t, c) ==
  /\ UNCHANGED <<page, left, last, raced>>
  /\ \/ /\ M.fault >= 1
        /\ status' = "segv"
        /\ UNCHANGED <<mem, HEAD, brk, held, caller>>
     \/ /\ M.fault <= 1
        /\ M.hang \/ M.abort
        /\ status' = IF M.hang THEN "hang" ELSE "aborted"
        /\ UNCHANGED <<mem, HEAD, brk, held, caller>>
     \/ /\ M.fault <= 1
        /\ ~M.hang /\ ~M.abort
        /\ status' = "running"
        /\ mem' = M.mem
        /\ HEAD' = M.head
        /\ brk' = M.brk
        /\ caller' = [caller EXCEPT ![t] = c]
        /\ held' = Owned([caller EXCEPT ![t] = c])

At(t, pc) == status = "running" /\ caller[t].pc = pc

\* the call returns r to the caller
Return(c, r) ==
  [Idle(IF r = NULL THEN c.own
        ELSE c.own \cup {[ptr |-> ToInt(r), size |-> ToInt(c.size)]})
     EXCEPT !.op = c.op, !.size = c.size, !.ptr = c.ptr, !.ret = ToInt(r)]

\* a caller enters a call
Enter(t, c) ==
  /\ At(t, "idle")
  /\ left > 0
  /\ left' = left - 1
  /\ caller' = [caller EXCEPT ![t] = c]
  /\ raced' = (raced \/ \E u \in Callers \ {t} : caller[u].pc # "idle")
  /\ held' = Owned([caller EXCEPT ![t] = c])
  /\ UNCHANGED <<mem, HEAD, brk, status, page, last>>

CallMalloc(t, n) ==
  Enter(t, [Idle(caller[t].own) EXCEPT !.pc = "m_head", !.op = "malloc",
                                       !.size = W(n)])

CallFree(t, b) ==
  Enter(t, [Idle(caller[t].own \ {b}) EXCEPT !.pc = "f_check", !.op = "free",
                                             !.size = W(b.size),
                                             !.ptr = W(b.ptr)])

\* the value of HEAD a step reads
head_null(M) == NULL

head_read(M) == M.head

\* line 163: HEAD == NULL
m_head(t) ==
  /\ At(t, "m_head")
  /\ RaceEnd(Mach, t, [caller[t] EXCEPT
                         !.pc = IF head_read(Mach) = NULL THEN "m_fresh"
                                ELSE "m_curr"])

\* lines 176-177: curr = HEAD, prev = NULL
m_curr(t) ==
  /\ At(t, "m_curr")
  /\ RaceEnd(Mach, t, [caller[t] EXCEPT !.pc = "m_scan",
                                        !.block = head_read(Mach),
                                        !.prev = NULL])

\* lines 178-186 and 204-205: one turn of the loop
m_scan(t) ==
  /\ At(t, "m_scan")
  /\ Bind(caller[t], LAMBDA c :
       IF c.block = NULL THEN RaceEnd(Mach, t, [c EXCEPT !.pc = "m_fresh"])
       ELSE
     Bind(TouchHeader(Mach, c.block), LAMBDA M0 :
       IF Fits(GetSize(M0, c.block), c.size)
       THEN RaceEnd(M0, t, [c EXCEPT !.pc = "m_split"])
       ELSE RaceEnd(M0, t, [c EXCEPT !.prev = c.block,
                                     !.block = GetNext(M0, c.block)])))

\* lines 22-25: the test of split
m_split(t) ==
  /\ At(t, "m_split")
  /\ Bind(caller[t], LAMBDA c :
     Bind(TouchHeader(Mach, c.block), LAMBDA M0 :
       IF Lt(GetSize(M0, c.block), Add(SExt32(c.size), W(HeaderSize)))
       THEN RaceEnd(M0, t, Return(c, NULL))
       ELSE RaceEnd(M0, t, [c EXCEPT !.pc = "m_cut"])))

\* lines 27-37: split past its test
split_cut(M, block, size) ==
  Bind(SExt32(size), LAMBDA sz :
  Bind(Add(Add(block, sz), W(HeaderSize)), LAMBDA new_block :
  Bind(SetSize(M, new_block, Sub(Sub(GetSize(M, block), sz), W(HeaderSize))),
       LAMBDA M1 :
  Bind(SetNext(M1, new_block, GetNext(M1, block)), LAMBDA M2 :
  Bind(SetSize(M2, block, sz), LAMBDA M3 :
    SetNext(M3, block, new_block))))))

m_cut(t) ==
  /\ At(t, "m_cut")
  /\ RaceEnd(split_cut(Mach, caller[t].block, caller[t].size), t,
             [caller[t] EXCEPT !.pc = "m_unlink"])

\* lines 193-197
unlink(M, curr, prev) ==
  IF prev # NULL THEN SetNext(M, prev, GetNext(M, curr))
  ELSE [M EXCEPT !.head = GetNext(M, curr)]

m_unlink(t) ==
  /\ At(t, "m_unlink")
  /\ RaceEnd(unlink(Mach, caller[t].block, caller[t].prev), t,
             [caller[t] EXCEPT !.pc = "m_mark"])

\* lines 199-202
m_mark(t) ==
  /\ At(t, "m_mark")
  /\ Bind(caller[t], LAMBDA c :
       RaceEnd(WriteSentinel(SetSize(Mach, c.block, c.size), c.block, c.size),
               t, Return(c, Add(c.block, W(HeaderSize)))))

\* lines 164-173 and 208-220
m_fresh(t) ==
  /\ At(t, "m_fresh")
  /\ Bind(tumalloc_fresh(Mach, caller[t].size), LAMBDA r :
       RaceEnd(r.m, t, Return(caller[t], r.ret)))

\* lines 275-280 and 285-288
f_check(t) ==
  /\ At(t, "f_check")
  /\ Bind(Sub(caller[t].ptr, W(HeaderSize)), LAMBDA header :
     Bind(TouchHeader(Mach, header), LAMBDA M0 :
     Bind(Touch(M0, SentinelAt(header, GetSize(M0, header)), IntSize),
          LAMBDA M1 :
       IF M1.fault = 2 THEN RaceEnd(M1, t, caller[t])
       ELSE IF SentinelIntact(M1, header)
       THEN RaceEnd(SetSize(M1, header, GetSize(M1, header)), t,
                    [caller[t] EXCEPT !.pc = "f_read", !.block = header])
       ELSE RaceEnd([M1 EXCEPT !.abort = TRUE], t, caller[t]))))

\* line 281, the read of HEAD
f_read(t) ==
  /\ At(t, "f_read")
  /\ RaceEnd(Mach, t, [caller[t] EXCEPT !.pc = "f_link", !.h = head_read(Mach)])

\* line 281, the write of the link
f_link(t) ==
  /\ At(t, "f_link")
  /\ RaceEnd(SetNext(Mach, caller[t].block, caller[t].h), t,
             [caller[t] EXCEPT !.pc = "f_head"])

\* line 282
f_head(t) ==
  /\ At(t, "f_head")
  /\ RaceEnd([Mach EXCEPT !.head = caller[t].block], t,
             [caller[t] EXCEPT !.pc = "f_coal"])

\* line 284
f_coal(t) ==
  /\ At(t, "f_coal")
  /\ RaceEnd(coalesce(Mach, caller[t].block).m, t, Return(caller[t], NULL))

InitRace == Start(MaxRaceOps)

NextRace ==
  \/ \E t \in Callers : \E n \in RaceSizes : CallMalloc(t, n)
  \/ \E t \in Callers : \E b \in caller[t].own : CallFree(t, b)
  \/ \E t \in Callers : m_head(t)
  \/ \E t \in Callers : m_curr(t)
  \/ \E t \in Callers : m_scan(t)
  \/ \E t \in Callers : m_split(t)
  \/ \E t \in Callers : m_cut(t)
  \/ \E t \in Callers : m_unlink(t)
  \/ \E t \in Callers : m_mark(t)
  \/ \E t \in Callers : m_fresh(t)
  \/ \E t \in Callers : f_check(t)
  \/ \E t \in Callers : f_read(t)
  \/ \E t \in Callers : f_link(t)
  \/ \E t \in Callers : f_head(t)
  \/ \E t \in Callers : f_coal(t)

SpecRace == InitRace /\ [][NextRace]_vars

(***************************************************************************)
(* What the claims speak of: the Free List as it is reachable from HEAD,   *)
(* the bytes a block covers, the blocks the caller holds.                  *)
(***************************************************************************)
\* p points at a header that lies inside memory
IsAddr(p) == Small(p) /\ ToInt(p) + HeaderSize <= MemTop

SizeOf(m, b) == RdBytes(m, b + SizeOff, WordSize)
NextOf(m, b) == RdBytes(m, b + NextOff, WordSize)

\* the headers reached from curr by following next, in order, up to the end
\* of the list, a pointer that is no address, or a header met before
RECURSIVE ListFrom(_, _, _)
ListFrom(m, curr, acc) ==
  IF curr = NULL \/ ~IsAddr(curr) THEN acc
  ELSE IF \E i \in 1..Len(acc) : acc[i] = ToInt(curr) THEN acc
  ELSE ListFrom(m, NextOf(m, ToInt(curr)), Append(acc, ToInt(curr)))

\* the pointer the walk of ListFrom stops at
RECURSIVE ListEnd(_, _, _)
ListEnd(m, curr, seen) ==
  IF curr = NULL \/ ~IsAddr(curr) \/ ToInt(curr) \in seen THEN curr
  ELSE ListEnd(m, NextOf(m, ToInt(curr)), seen \cup {ToInt(curr)})

FreeList == ListFrom(mem, HEAD, <<>>)
FreeSet == {FreeList[i] : i \in 1..Len(FreeList)}

\* the list ends in NULL: it is finite, acyclic and made of addresses
WellFormed(m, head) == ListEnd(m, head, {}) = NULL

\* one past the last payload byte of the block at b, as its header says;
\* a size the model cannot hold as a number ends beyond all memory
Beyond == 2 * MemTop + HeaderSize
EndOf(m, b) ==
  IF Small(SizeOf(m, b)) /\ b + HeaderSize + ToInt(SizeOf(m, b)) < Beyond
  THEN b + HeaderSize + ToInt(SizeOf(m, b))
  ELSE Beyond

\* the bytes of a free block: header and payload
FreeBytes(b) == b..(EndOf(mem, b) - 1)

\* the bytes of a block the caller holds: header and payload ...
LiveBytes(h) == (h.ptr - HeaderSize)..(h.ptr + h.size - 1)
\* ... and with the sentinel that follows the payload
LiveBytesGuarded(h) == (h.ptr - HeaderSize)..(h.ptr + h.size + IntSize - 1)

\* the last step was a call of the allocator
Called == left' = left - 1

Hdr(p) == p - HeaderSize

HeapBytes == HeapBase..(brk - 1)

\* the walk from head meets no header twice
NoRepeat(m, head) ==
  LET e == ListEnd(m, head, {}) IN e = NULL \/ ~IsAddr(e)

\* the block b begins where the payload of a, as a's header records it, ends
Adjacent(a, b) ==
  Add(Add(W(Hdr(a.ptr)), W(HeaderSize)), SizeOf(mem, Hdr(a.ptr))) = W(Hdr(b.ptr))

\* a call that ran to M came back, having touched the heap's memory only
Returned(M) == ~Stopped(M) /\ M.fault = 0

\* release x, release y, allocate n bytes: every call returns, the last one
\* a block, and the break has not moved
ReleaseBothThenAllocate(x, y, n) ==
  Bind(tufree(Mach, W(x.ptr)), LAMBDA M1 :
    /\ Returned(M1)
    /\ Bind(tufree(M1, W(y.ptr)), LAMBDA M2 :
         /\ Returned(M2)
         /\ Bind(tumalloc(M2, n), LAMBDA r :
              Returned(r.m) /\ r.ret # NULL /\ r.m.brk = brk)))

\* the sentinel slot behind the payload of the free block f
SlotBytes(f) == EndOf(mem, f)..(EndOf(mem, f) + IntSize - 1)

\* this step is a turealloc of a block to more than its recorded size
GrowStep ==
  /\ Called
  /\ last'.op = "realloc"
  /\ last'.ptr # 0
  /\ Lt(SizeOf(mem, Hdr(last'.ptr)), last'.size)

\* no block of the Free List passes the tests of lines 180-181 for size
NoCandidate(size) ==
  \A f \in FreeSet : Lt(SizeOf(mem, f), Add(size, W(HeaderSize)))

\* the sbrk call of line 146 for size would go beyond the limit
SbrkRefuses(size) == brk + ToInt(size) + HeaderSize + IntSize > HeapLimit

(***************************************************************************)
(* C1: after any sequence of calls on valid pointers the Free List holds   *)
(* no block twice, and no Free List entry's header+payload span shares a   *)
(* byte with the header+payload of a block the caller holds.               *)
(***************************************************************************)
C1_NoDuplicateNoLive ==
  /\ NoRepeat(mem, HEAD)
  /\ \A f \in FreeSet : \A h \in held : FreeBytes(f) \cap LiveBytes(h) = {}

(***************************************************************************)
(* C2: for two held blocks A and B with address(A) + header_size + A.size  *)
(* = address(B), releasing both in either order and then allocating        *)
(* A.size + B.size + header_size bytes returns a non-null pointer and      *)
(* leaves the break where it was.                                          *)
(***************************************************************************)
C2_AdjacentPairReusable ==
  \A a, b \in held :
    Adjacent(a, b) =>
      LET n == Add(Add(SizeOf(mem, Hdr(a.ptr)), SizeOf(mem, Hdr(b.ptr))),
                   W(HeaderSize))
      IN  ReleaseBothThenAllocate(a, b, n) /\ ReleaseBothThenAllocate(b, a, n)

(***************************************************************************)
(* C3: conservation.  In every state the blocks the caller holds (header,  *)
(* payload, sentinel) and the blocks reachable from HEAD (header, payload) *)
(* lie inside the bytes obtained from sbrk, no two of them share a byte,   *)
(* and every byte obtained from sbrk belongs to one of them or is the      *)
(* sentinel slot left behind a free block.                                 *)
(***************************************************************************)
C3_Conservation ==
  /\ WellFormed(mem, HEAD)
  /\ \A f \in FreeSet : FreeBytes(f) \subseteq HeapBytes
  /\ \A h \in held : LiveBytesGuarded(h) \subseteq HeapBytes
  /\ \A f, g \in FreeSet : f # g => FreeBytes(f) \cap FreeBytes(g) = {}
  /\ \A h, k \in held : h # k => LiveBytesGuarded(h) \cap LiveBytesGuarded(k) = {}
  /\ \A f \in FreeSet : \A h \in held : FreeBytes(f) \cap LiveBytesGuarded(h) = {}
  /\ \A x \in HeapBytes :
       \/ \E h \in held : x \in LiveBytesGuarded(h)
       \/ \E f \in FreeSet : x \in FreeBytes(f) \/ x \in SlotBytes(f)

(***************************************************************************)
(* C5: after any sequence of allocate and release calls on valid pointers  *)
(* the Free List reachable from HEAD meets no header twice, and no call    *)
(* loops for ever over it.                                                 *)
(***************************************************************************)
C5_ListScansEnd == NoRepeat(mem, HEAD) /\ status # "hang"

(***************************************************************************)
(* C4: whenever release is called on a non-null pointer and the int at     *)
(* payload + header.size is not the sentinel value, the process aborts and *)
(* neither the Free List nor memory changes; only when that int is the     *)
(* sentinel value does the call go on to push the block, which is the new  *)
(* head of the Free List when the call returns.                            *)
(***************************************************************************)
C4_CorruptionDetected ==
  [][(Called /\ last'.op = "free" /\ last'.ptr # 0) =>
       IF /\ Small(SizeOf(mem, Hdr(last'.ptr)))
          /\ RdBytes(mem, last'.ptr + ToInt(SizeOf(mem, Hdr(last'.ptr))), IntSize)
               = W(MAGIC_NUMBER)
       THEN /\ status' # "aborted"
            /\ status' = "running" => HEAD' = W(Hdr(last'.ptr))
       ELSE /\ status' = "aborted"
            /\ mem' = mem
            /\ HEAD' = HEAD]_vars

\* a release has found the sentinel of a block the caller overran no longer
\* the sentinel value, and has aborted
C4_Witness ==
  /\ status = "aborted"
  /\ last.op = "free"
  /\ \E h \in held :
       /\ h.ptr = last.ptr
       /\ SizeOf(mem, Hdr(h.ptr)) = W(h.size)
       /\ \E k \in 0..(IntSize - 1) :
            /\ mem[h.ptr + h.size + k] = 0
            /\ W(MAGIC_NUMBER)[k + 1] # 0

(***************************************************************************)
(* C6: when the last call released a block of payload size S and left it   *)
(* the only entry of the Free List, a following allocate(r) with           *)
(* S - r >= header_size returns that block's payload address and does not  *)
(* move the break.                                                         *)
(***************************************************************************)
C6_SplitAndReuse ==
  [][(/\ Called
      /\ last'.op = "malloc"
      /\ status = "running"
      /\ last.op = "free"
      /\ last.ptr # 0
      /\ HEAD = W(Hdr(last.ptr))
      /\ NextOf(mem, Hdr(last.ptr)) = NULL
      /\ ~Lt(last.size, Add(last'.size, W(HeaderSize))))
     => /\ status' = "running"
        /\ last'.ret = last.ptr
        /\ brk' = brk]_vars

\* an allocation has been cut from the front of the only free block: the
\* remainder follows the returned payload and is the whole list
C6_Witness ==
  /\ status = "running"
  /\ last.op = "malloc"
  /\ last.ret # 0
  /\ HEAD = W(last.ret + ToInt(last.size))
  /\ NextOf(mem, ToInt(HEAD)) = NULL
  /\ ToInt(HEAD) + HeaderSize <= brk

(***************************************************************************)
(* C7: when reallocate is called on a held block of recorded size S with   *)
(* new_size > S and returns a block, that block holds at offsets 0..S-1    *)
(* the bytes the old block held there when the call was made, and the old  *)
(* block is on the Free List or inside a block that is.                    *)
(***************************************************************************)
C7_ReallocGrowth ==
  [][(GrowStep /\ status' = "running" /\ last'.ret # 0)
     => /\ \A i \in 0..(ToInt(SizeOf(mem, Hdr(last'.ptr))) - 1) :
             mem'[last'.ret + i] = mem[last'.ptr + i]
        /\ \E f \in FreeSet' :
             f <= Hdr(last'.ptr) /\ Hdr(last'.ptr) < EndOf(mem', f)]_vars

(***************************************************************************)
(* C8: reallocate(p, n) with n <= the block's recorded size returns p and  *)
(* leaves memory (so the recorded size and the sentinel), the Free List    *)
(* and the break unchanged.                                                *)
(***************************************************************************)
C8_ReallocShrinkNoOp ==
  [][(/\ Called
      /\ last'.op = "realloc"
      /\ last'.ptr # 0
      /\ ~Lt(SizeOf(mem, Hdr(last'.ptr)), last'.size))
     => /\ status' = "running"
        /\ last'.ret = last'.ptr
        /\ mem' = mem
        /\ HEAD' = HEAD
        /\ brk' = brk]_vars

\* a reallocation to the recorded size itself has returned
C8_Witness ==
  /\ status = "running"
  /\ last.op = "realloc"
  /\ last.ptr # 0
  /\ last.ret = last.ptr
  /\ SizeOf(mem, Hdr(last.ptr)) = last.size

(***************************************************************************)
(* C9: when no block of the Free List has size + header_size bytes or more *)
(* and sbrk refuses to move the break, allocate returns null, the process  *)
(* goes on, and memory, the Free List, the break and the blocks held are   *)
(* as before.                                                              *)
(***************************************************************************)
C9_ExhaustionReturnsNull ==
  [][(/\ Called
      /\ last'.op = "malloc"
      /\ NoCandidate(last'.size)
      /\ SbrkRefuses(last'.size))
     => /\ status' = "running"
        /\ last'.ret = 0
        /\ mem' = mem
        /\ HEAD' = HEAD
        /\ brk' = brk
        /\ held' = held]_vars

(***************************************************************************)
(* C10: after tucalloc(count, size) returns a block, each of its first     *)
(* count * size mod 2^64 bytes is zero; when it returns null, memory is as *)
(* before.                                                                 *)
(***************************************************************************)
C10_ZeroFill ==
  [][(Called /\ last'.op = "calloc" /\ status' = "running")
     => IF last'.ret # 0
        THEN \A i \in 0..(ToInt(Mul(last'.num, last'.size)) - 1) :
               mem'[last'.ret + i] = 0
        ELSE mem' = mem]_vars

\* a zeroed allocation whose count * size wrapped has returned a block
C10_Witness ==
  /\ status = "running"
  /\ last.op = "calloc"
  /\ last.num = HugeCount
  /\ last.ret # 0

\* the free blocks that end where the block at b begins, and those that
\* begin where it ends (the tests of lines 51 and 70)
PrevNeighbours(b) ==
  {f \in FreeSet : Add(Add(W(f), SizeOf(mem, f)), W(HeaderSize)) = W(b)}

NextNeighbours(b) ==
  {f \in FreeSet : W(f) = Add(Add(W(b), SizeOf(mem, b)), W(HeaderSize))}

\* the payload sizes of the blocks in fs, with one header for each, added up
RECURSIVE Absorbed(_)
Absorbed(fs) ==
  IF fs = {} THEN NULL
  ELSE LET f == CHOOSE x \in fs : TRUE
       IN  Add(Add(SizeOf(mem, f), W(HeaderSize)), Absorbed(fs \ {f}))

\* this step is a tufree of a block that returns
ReleaseReturns ==
  Called /\ last'.op = "free" /\ last'.ptr # 0 /\ status' = "running"

(***************************************************************************)
(* C11: when a release returns, the freed block and its physically         *)
(* previous and next free neighbours are one Free List entry (the previous *)
(* neighbour if there is one, else the freed block) whose size is the sum  *)
(* of the merged payload sizes plus header_size for each absorbed block,   *)
(* and no absorbed block's header is reachable from HEAD any more.         *)
(***************************************************************************)
C11_CoalescingNetEffect ==
  [][ReleaseReturns =>
       LET b == Hdr(last'.ptr)
           P == PrevNeighbours(b)
           N == NextNeighbours(b)
           e == IF P = {} THEN b ELSE CHOOSE f \in P : TRUE
       IN  /\ e \in FreeSet'
           /\ SizeOf(mem', e) =
                IF P = {} THEN Add(SizeOf(mem, b), Absorbed(N))
                ELSE Add(SizeOf(mem, e), Absorbed({b} \cup N))
           /\ P # {} => b \notin FreeSet'
           /\ \A n \in N : n \notin FreeSet']_vars

(***************************************************************************)
(* C12: after any sequence of calls on valid pointers, the regions         *)
(* (header, payload and sentinel) of any two blocks the caller holds share *)
(* no byte.                                                                *)
(***************************************************************************)
C12_LiveBlocksDisjoint ==
  \A h, k \in held :
    h.ptr # k.ptr => LiveBytesGuarded(h) \cap LiveBytesGuarded(k) = {}

(***************************************************************************)
(* C13: with a caller that writes only inside the payloads of blocks it    *)
(* holds and releases each pointer at most once, every release finds the   *)
(* int behind its payload to be the sentinel value and does not abort.     *)
(***************************************************************************)
C13_NoFalseCorruption ==
  [][(Called /\ last'.op = "free" /\ last'.ptr # 0) =>
       /\ RdBytes(mem, last'.ptr + ToInt(SizeOf(mem, Hdr(last'.ptr))), IntSize)
            = W(MAGIC_NUMBER)
       /\ status' # "aborted"]_vars

\* the first block, in Free List order, that passes the tests of lines
\* 180-181 for a request of size bytes; 0 when the walk meets none
FirstFit(size) ==
  LET I == {i \in 1..Len(FreeList) : Fits(SizeOf(mem, FreeList[i]), size)}
  IN  IF I = {} THEN 0 ELSE FreeList[CHOOSE i \in I : \A j \in I : i <= j]

\* the Free List with the entry c replaced by r
Replaced(c, r) ==
  [i \in 1..Len(FreeList) |-> IF FreeList[i] = c THEN r ELSE FreeList[i]]

\* this step is a tumalloc that returns a block cut from the Free List
ReuseStep ==
  /\ Called
  /\ last'.op = "malloc"
  /\ status' = "running"
  /\ FirstFit(last'.size) # 0
  /\ last'.ret = FirstFit(last'.size) + HeaderSize

(***************************************************************************)
(* C14: when allocate(r) has reused a free block of size S, then on return *)
(* the returned block has size r, and the remainder starts header_size + r *)
(* bytes past the original header, has size S - r - header_size, carries   *)
(* the original's next link and stands where the original stood in the     *)
(* Free List, whose other entries and their order are unchanged.           *)
(***************************************************************************)
C14_SplitResult ==
  [][ReuseStep =>
       LET c == FirstFit(last'.size)
           rem == c + HeaderSize + ToInt(last'.size)
       IN  /\ SizeOf(mem', c) = last'.size
           /\ SizeOf(mem', rem) =
                Sub(Sub(SizeOf(mem, c), last'.size), W(HeaderSize))
           /\ NextOf(mem', rem) = NextOf(mem, c)
           /\ FreeList' = Replaced(c, rem)]_vars

\* the bytes of the header at b
HeaderBytes(b) == b..(b + HeaderSize - 1)

\* the sentinel slot of the block tumalloc has just returned
NewSlot == (last.ret + ToInt(last.size))..(last.ret + ToInt(last.size) + IntSize - 1)

(***************************************************************************)
(* C15: when allocate has returned a block, the sentinel slot of that      *)
(* block (the int at payload + size) shares no byte with the header of any *)
(* Free List block, the split remainder included, nor with the header of   *)
(* any other block the caller holds.                                       *)
(***************************************************************************)
C15_SentinelOutsideHeaders ==
  (status = "running" /\ last.op = "malloc" /\ last.ret # 0) =>
    /\ \A f \in FreeSet : NewSlot \cap HeaderBytes(f) = {}
    /\ \A h \in held :
         h.ptr # last.ret => NewSlot \cap HeaderBytes(Hdr(h.ptr)) = {}

(***************************************************************************)
(* C16: allocate(r) returns the payload of the first block in Free List    *)
(* order whose size is r + header_size or more; a block with               *)
(* r <= size < r + header_size is never returned; when no block qualifies  *)
(* (and sbrk does not refuse) the break moves by exactly                   *)
(* r + header_size + sizeof(int), the block at the old break is returned   *)
(* and the Free List is as before.                                         *)
(***************************************************************************)
C16_FirstFitWithSkip ==
  [][(Called /\ last'.op = "malloc") =>
       /\ FirstFit(last'.size) # 0 =>
            /\ status' = "running"
            /\ last'.ret = FirstFit(last'.size) + HeaderSize
       /\ \A f \in FreeSet :
            (~Lt(SizeOf(mem, f), last'.size) /\ ~Fits(SizeOf(mem, f), last'.size))
              => last'.ret # f + HeaderSize
       /\ (FirstFit(last'.size) = 0 /\ ~SbrkRefuses(last'.size)) =>
            /\ status' = "running"
            /\ last'.ret = brk + HeaderSize
            /\ brk' = brk + ToInt(last'.size) + HeaderSize + IntSize
            /\ HEAD' = HEAD
            /\ FreeList' = FreeList]_vars

(***************************************************************************)
(* C17: releasing a pointer a second time, with no call in between, is     *)
(* detected at the second release: the process aborts, and the block is    *)
(* not pushed onto the Free List again (memory and HEAD are as before).    *)
(***************************************************************************)
C17_DoubleReleaseFatal ==
  [][(Called /\ last'.op = "refree") =>
       /\ status' = "aborted"
       /\ mem' = mem
       /\ HEAD' = HEAD]_vars

\* the tumalloc of line 255 for size bytes, called in this state, returns NULL
InnerFails(size) ==
  Bind(tumalloc(Mach, size), LAMBDA a : a.ret = NULL /\ ~Stopped(a.m))

(***************************************************************************)
(* C18: when reallocate has to grow a block and the tumalloc it calls      *)
(* returns null, reallocate returns null and the process goes on; memory   *)
(* (so the old block's payload, recorded size and sentinel), the Free      *)
(* List, the break and the blocks held are as before.                      *)
(***************************************************************************)
C18_ReallocFailureKeepsOld ==
  [][(GrowStep /\ InnerFails(last'.size)) =>
       /\ status' = "running"
       /\ last'.ret = 0
       /\ mem' = mem
       /\ HEAD' = HEAD
       /\ brk' = brk
       /\ held' = held]_vars

\* a reallocation to a larger size has returned null, and the caller still
\* holds the block with its sentinel in place
C18_Witness ==
  /\ status = "running"
  /\ last.op = "realloc"
  /\ last.ret = 0
  /\ \E h \in held :
       /\ h.ptr = last.ptr
       /\ Lt(SizeOf(mem, Hdr(h.ptr)), last.size)
       /\ RdBytes(mem, h.ptr + ToInt(SizeOf(mem, Hdr(h.ptr))), IntSize)
            = W(MAGIC_NUMBER)

\* this step is a tumalloc whose scan stops at a candidate and that returns
SplitStep ==
  /\ Called
  /\ last'.op = "malloc"
  /\ status' = "running"
  /\ FirstFit(last'.size) # 0

(***************************************************************************)
(* C19: whenever allocate calls the Splitter on a candidate, the           *)
(* candidate's size is at least the request plus a header, the Splitter    *)
(* does not return null, and allocate does not return null.                *)
(***************************************************************************)
C19_SplitNeverFails ==
  [][SplitStep =>
       /\ Fits(SizeOf(mem, FirstFit(last'.size)), last'.size)
       /\ split(Mach, W(FirstFit(last'.size)), last'.size).ret # NULL
       /\ last'.ret # 0]_vars

\* caller t is about to write HEAD, which no longer holds what t read there:
\* the write undoes another caller's update
HeadStale(t) ==
  \/ At(t, "f_head") /\ HEAD # caller[t].h
  \/ At(t, "m_unlink") /\ caller[t].prev = NULL /\ HEAD # caller[t].block

\* caller t writes HEAD over an update it has not seen
LostUpdate ==
  \E t \in Callers : HeadStale(t) /\ caller'[t].pc # caller[t].pc

\* both callers own a block at the same address
SameBlockTwice ==
  \E a \in caller[1].own : \E b \in caller[2].own : a.ptr = b.ptr

(***************************************************************************)
(* C20: without synchronization two callers can lose an update of HEAD or  *)
(* be handed the same block (the witness and the state before a lost       *)
(* update are reachable); as long as no call has started while another     *)
(* caller was inside a call, neither happens.                              *)
(***************************************************************************)
C20_UnsafeOnlyWhenInterleaved ==
  [][(LostUpdate \/ SameBlockTwice') => raced']_vars

\* both callers have been handed the same block by tumalloc and the
\* process runs on
C20_Witness ==
  /\ status = "running"
  /\ SameBlockTwice
  /\ \A t \in Callers : caller[t].pc = "idle" /\ caller[t].op = "malloc"
  /\ caller[1].ret = caller[2].ret

====
